---- MODULE Spec2Model ----
(***************************************************************************)
(* Model of the game-gallery persistence core.                             *)
(*                                                                         *)
(*  - GitHubService (apps/web/src/services/github.ts): fetchGames and      *)
(*    concurrentUpdateGames against one remote document (games.json)       *)
(*    guarded by a version token (the file's sha).                         *)
(*  - SteamService (backend/internal/services/steam.go): Search with a    *)
(*    time-bounded cache and a periodic sweep.                             *)
(*  - App (apps/web/src/App/index.tsx): the handlers that load, add, edit  *)
(*    and delete games through GitHubService.                              *)
(*                                                                         *)
(* Spec      : any number (up to MaxCalls) of fetchGames /                 *)
(*             concurrentUpdateGames calls interleaved at their awaits.    *)
(* SpecCache : Search and GetCacheStats calls and cleanup cycles over the  *)
(*             shared cache, one query under two limits.                   *)
(* SpecPadded: the same with queries that differ in surrounding whitespace.*)
(* SpecBlank : the same with empty and whitespace-only queries.            *)
(* SpecSweepLive : one query and one limit, with the cleanup goroutine and *)
(*             the locked sections running fairly.                         *)
(* SpecBoot  : goroutines calling GetSteamService under every proxy        *)
(*             environment.                                                *)
(* SpecApp   : two browsers, each running one handler chain (a load with   *)
(*             its migration, an add with its follow-up, an edit) over the *)
(*             same document.                                              *)
(***************************************************************************)
EXTENDS Integers, Sequences, FiniteSets, Bags, TLC

(***************************************************************************)
(* Bounds.                                                                 *)
(***************************************************************************)
\* number of fetchGames / concurrentUpdateGames calls in one behaviour
MaxCalls == 3
\* the clock of the search cache stops here (minutes)
MaxTime == 15
\* the browsers' clock stops here (milliseconds)
MaxClock == 2

VARIABLES
  remote,   \* the remote document games.json: [exists, blob, sha]
  calls     \* the bag of fetchGames / concurrentUpdateGames invocations, one
            \* record each (callers are anonymous: the service keeps no
            \* state between calls)

VARIABLES
  searchCache,  \* SteamService.searchCache: key -> entry (or no entry)
  lastStored,   \* history: per key, the entry most recently stored
  mu,           \* SteamService.mu: [readers, writer]
  now,          \* wall clock, in minutes
  th,           \* the goroutines calling Search, one record each
  sweeper       \* position of the startCacheCleanup goroutine

VARIABLES
  boot,      \* the backend process: environment, once, instance, counters
  starters   \* the goroutines calling GetSteamService, one record each

VARIABLES
  ui,        \* the App in each browser: handler position, games state, toast
  clock      \* Date.now(), in milliseconds

githubVars == <<remote, calls>>
steamVars == <<searchCache, lastStored, mu, now, th, sweeper>>
startVars == <<boot, starters>>
appVars == <<ui, clock>>
vars == <<remote, calls, searchCache, lastStored, mu, now, th, sweeper, boot, starters,
          ui, clock>>
outsideGitHub == <<steamVars, startVars, appVars>>
outsideSteam == <<githubVars, startVars, appVars>>
outsideStart == <<githubVars, steamVars, appVars>>
outsideApp == <<steamVars, startVars>>

(***************************************************************************)
(* Values.                                                                 *)
(***************************************************************************)
\* `sha: undefined` of fetchRawFile's { data: null } (file not found)
NoSha == 0

Range(s) == {s[i] : i \in 1..Len(s)}

\* JSON.stringify + base64 of { games: L } (github.ts 227-228): the content
\* field of the remote file.  A blob either carries a game list or is not
\* decodable at all (content written by something else than this client).
Encode(L) == [json |-> TRUE, games |-> L]
Garbled == [json |-> FALSE, games |-> <<>>]

\* atob + JSON.parse of the content, then `.games` (github.ts 213-215):
\* throws on content that is not the encoding of a game list.
Decode(blob) ==
  IF blob.json THEN [threw |-> FALSE, games |-> blob.games]
  ELSE [threw |-> TRUE, games |-> <<>>]

\* the value `null` of Promise<Game[] | null>, and a returned list
Null == [ok |-> FALSE, games |-> <<>>]
Some(L) == [ok |-> TRUE, games |-> L]

\* a promise that rejects instead of resolving
Thrown == [ok |-> FALSE, games |-> <<>>, thrown |-> TRUE]

\* a method without its catch blocks
OnExceptionRethrow(where) == Thrown

\* what the method returns when an exception is raised inside its try
\* blocks: every catch logs and returns null (github.ts 157-160, 216-219,
\* 257-260)
OnException(where) == Null


(***************************************************************************)
(* Caller-supplied updaters (App/index.tsx) over lists of game names.      *)
(***************************************************************************)
\* handleAddGameFromSteam's updater: duplicate -> the list unchanged,
\* otherwise [newGame, ...currentGames]
AddGame(g, L) == IF g \in Range(L) THEN L ELSE <<g>> \o L

\* handleDeleteGame's updater: currentGames.filter(g => g.id !== id)
DeleteGame(g, L) == LET Keep(x) == x # g IN SelectSeq(L, Keep)

\* the updaters a call may be given; "throw" is an updater that raises
Transforms ==
  {[kind |-> "add", g |-> "B"], [kind |-> "add", g |-> "C"],
   [kind |-> "delete", g |-> "A"], [kind |-> "throw", g |-> "A"]}

(***************************************************************************)
(* The App's updaters (apps/web/src/App/index.tsx) over lists of Game      *)
(* records [id, name, status, pinned, meta].                               *)
(***************************************************************************)
\* the browsers that have the App open
Clients == {"c1", "c2"}

\* the names each user can add; "B" and "b" are equal ignoring case
NewNames(c) == IF c = "c1" THEN {"B"} ELSE {"b", "C"}

\* name.toLowerCase()
ToLowerCase(n) ==
  CASE n = "A" -> "a"
    [] n = "B" -> "b"
    [] n = "C" -> "c"
    [] OTHER   -> n

\* the game the document holds at the start, in the retired status
\* "pending" or in "queueing"
OldGame(status) ==
  [id |-> 0, name |-> "A", status |-> status, pinned |-> FALSE, meta |-> TRUE]

\* newGame of handleAddGameFromSteam (index.tsx 160-173): the id is the
\* clock reading, and the review data is still to be fetched
NewGame(id, name) ==
  [id |-> id, name |-> name, status |-> "queueing", pinned |-> FALSE, meta |-> FALSE]

NoGame == NewGame(0, "")

Ids(L) == {L[i].id : i \in 1..Len(L)}
HasId(L, id) == id \in Ids(L)

\* games.some(g => g.name.toLowerCase() === name.toLowerCase())
HasName(L, name) == \E i \in 1..Len(L) : ToLowerCase(L[i].name) = ToLowerCase(name)

\* the updater of handleAddGameFromSteam (index.tsx 177-185)
AddGameFromSteam(game, L) == IF HasName(L, game.name) THEN L ELSE <<game>> \o L

\* the map of the follow-up save (index.tsx 245-259 and 262-275)
SaveMeta(id, L) ==
  [i \in 1..Len(L) |-> IF L[i].id = id THEN [L[i] EXCEPT !.meta = TRUE] ELSE L[i]]

\* an updater that applies the change to every record
UpdateEveryGame(id, status, L) ==
  [i \in 1..Len(L) |-> [L[i] EXCEPT !.status = status]]

\* the updater of handleUpdateGame (index.tsx 296-300)
UpdateGame(id, status, L) ==
  [i \in 1..Len(L) |-> IF L[i].id = id THEN [L[i] EXCEPT !.status = status] ELSE L[i]]

\* the updater of handleDeleteGame (index.tsx 318-320)
DeleteGameById(id, L) == LET Keep(g) == g.id # id IN SelectSeq(L, Keep)

\* the updater of handlePinGame (index.tsx 341-349)
PinGame(id, pinned, L) ==
  [i \in 1..Len(L) |-> IF L[i].id = id THEN [L[i] EXCEPT !.pinned = pinned] ELSE L[i]]

\* the migration of loadGames (index.tsx 79-88)
HasPending(L) == \E i \in 1..Len(L) : L[i].status = "pending"
Migrate(L) ==
  [i \in 1..Len(L) |->
     IF L[i].status = "pending" THEN [L[i] EXCEPT !.status = "queueing"] ELSE L[i]]

\* the updater updateGames builds from its argument: () => gameData.games
\* (github.ts 170)
SetList(games, L) == games

EditKinds == {"updateGame", "deleteGame", "pinGame"}
AppKinds == {"addGame", "saveMeta", "setList"} \cup EditKinds

\* the updater a handler of client c passes, with what it closes over
Updater(kind, c, id, game, pinned, games) ==
  [kind |-> kind, client |-> c, id |-> id, game |-> game,
   pinned |-> pinned, games |-> games]

ApplyAppTransform(tf, L) ==
  CASE tf.kind = "addGame"    -> AddGameFromSteam(tf.game, L)
    [] tf.kind = "saveMeta"   -> SaveMeta(tf.id, L)
    [] tf.kind = "updateGame" -> UpdateGame(tf.id, "playing", L)
    [] tf.kind = "deleteGame" -> DeleteGameById(tf.id, L)
    [] tf.kind = "pinGame"    -> PinGame(tf.id, tf.pinned, L)
    [] OTHER                  -> SetList(tf.games, L)

\* updater(currentGames) (github.ts 223)
ApplyTransform(tf, L) ==
  CASE tf.kind = "add"      -> [threw |-> FALSE, games |-> AddGame(tf.g, L)]
    [] tf.kind = "delete"   -> [threw |-> FALSE, games |-> DeleteGame(tf.g, L)]
    [] tf.kind \in AppKinds -> [threw |-> FALSE, games |-> ApplyAppTransform(tf, L)]
    [] OTHER                -> [threw |-> TRUE, games |-> <<>>]

(***************************************************************************)
(* The remote content API as the call sites use it.                        *)
(***************************************************************************)
\* what a GET of games.json can answer: the request fails in transport, the
\* API answers an error status, "not found" when the file was never
\* created, or the content with its sha
GetResponses ==
  {[kind |-> "neterr", blob |-> Garbled, sha |-> NoSha],
   [kind |-> "error", blob |-> Garbled, sha |-> NoSha]}
  \cup (IF remote.exists
          THEN {[kind |-> "ok", blob |-> remote.blob, sha |-> remote.sha]}
          ELSE {[kind |-> "404", blob |-> Garbled, sha |-> NoSha]})

\* the remote accepts a PUT only with the sha of the current content, or
\* with no sha while the file does not exist
RemoteAccepts(sha) ==
  IF remote.exists THEN sha = remote.sha ELSE sha = NoSha

\* how a PUT can end: "lost" = the request never reached the API;
\* "dropped" = the API processed it and the connection failed before the
\* response arrived; "error" = an error status other than 409 (401, 403,
\* 422, 5xx), nothing written; "done" = the API checked the sha and answered
PutOutcomes == {"lost", "dropped", "error", "done"}

(***************************************************************************)
(* GitHubService.                                                          *)
(***************************************************************************)
\* fetchRawFile answering { data: null } for every failure, not only for 404
FetchRawFileLenient(resp) ==
  CASE resp.kind = "ok" -> [ok |-> TRUE, hasData |-> TRUE, blob |-> resp.blob, sha |-> resp.sha]
    [] OTHER            -> [ok |-> TRUE, hasData |-> FALSE, blob |-> Garbled, sha |-> NoSha]

\* a fetchRawFile that returns { data } without the sha
FetchRawFileNoSha(resp) ==
  CASE resp.kind = "neterr" -> [ok |-> FALSE, hasData |-> FALSE, blob |-> Garbled, sha |-> NoSha]
    [] resp.kind = "404"    -> [ok |-> TRUE, hasData |-> FALSE, blob |-> Garbled, sha |-> NoSha]
    [] resp.kind = "error"  -> [ok |-> FALSE, hasData |-> FALSE, blob |-> Garbled, sha |-> NoSha]
    [] OTHER                -> [ok |-> TRUE, hasData |-> TRUE, blob |-> resp.blob, sha |-> NoSha]

\* fetchRawFile (github.ts 267-304): null, { data: null }, or { data, sha }
FetchRawFile(resp) ==
  CASE resp.kind = "neterr" -> [ok |-> FALSE, hasData |-> FALSE, blob |-> Garbled, sha |-> NoSha]
    [] resp.kind = "404"    -> [ok |-> TRUE, hasData |-> FALSE, blob |-> Garbled, sha |-> NoSha]
    [] resp.kind = "error"  -> [ok |-> FALSE, hasData |-> FALSE, blob |-> Garbled, sha |-> NoSha]
    [] OTHER                -> [ok |-> TRUE, hasData |-> TRUE, blob |-> resp.blob, sha |-> resp.sha]

\* fetchGames answering { games: [] } for every failure, not only for 404
FetchGamesResultLenient(resp) ==
  IF resp.kind = "ok" /\ ~Decode(resp.blob).threw
    THEN Some(Decode(resp.blob).games) ELSE Some(<<>>)

\* fetchGames after its request (github.ts 129-160)
FetchGamesResult(resp) ==
  CASE resp.kind = "neterr" -> OnException("fetch")
    [] resp.kind = "404"    -> Some(<<>>)
    [] resp.kind = "error"  -> Null
    [] OTHER                -> IF Decode(resp.blob).threw THEN OnException("decode")
                               ELSE Some(Decode(resp.blob).games)

\* a PUT that carries whatever the remote holds now (a forced overwrite)
PutShaLatest(c) == IF remote.exists THEN remote.sha ELSE NoSha

\* the sha field of the PUT body (github.ts 236)
PutSha(c) == c.sha

\* a PUT that carries the list as fetched instead of the updater's result
PutBodyStale(c) == Encode(c.list)

\* the content field of the PUT body (github.ts 224-235)
PutBody(c) == Encode(c.newGames)

\* the status the code sees for a PUT the API answered
PutStatus(accepted) == IF accepted THEN "ok" ELSE "409"

\* a result that tells a conflict apart from the other failures
UpdateResultTagged(status, newGames) ==
  CASE status = "409" -> [ok |-> FALSE, games |-> <<"conflict">>]
    [] status = "ok"  -> Some(newGames)
    [] OTHER          -> Null

\* what concurrentUpdateGames returns for a PUT response (github.ts 240-256)
UpdateResult(status, newGames) ==
  CASE status = "409" -> Null
    [] status = "ok"  -> Some(newGames)
    [] OTHER          -> Null

\* a concurrentUpdateGames that starts over when it meets a conflict
AfterPutRetry(status) == IF status = "409" THEN "get" ELSE "done"

\* where concurrentUpdateGames continues after a PUT response: every branch
\* returns (github.ts 240-260)
AfterPut(status) == "done"

NewCall(op, tf) ==
  [op |-> op, tf |-> tf, pc |-> "get", sha |-> NoSha, list |-> <<>>,
   newGames |-> <<>>, result |-> Null, cause |-> "", got |-> "",
   garbled |-> FALSE,
   gets |-> 0, tfCalls |-> 0, puts |-> 0,
   committed |-> FALSE, replaced |-> <<>>]

Finish(c, result, cause) ==
  [c EXCEPT !.pc = "done", !.result = result, !.cause = cause]

\* the invocations made so far, and call c replaced by its next state d
Calls == BagToSet(calls)
Step(c, d) == (calls (-) SetToBag({c})) (+) SetToBag({d})

InitGitHub ==
  /\ remote \in {[exists |-> FALSE, blob |-> Garbled, sha |-> NoSha],
                 [exists |-> TRUE, blob |-> Encode(<<"A">>), sha |-> 1],
                 [exists |-> TRUE, blob |-> Garbled, sha |-> 1]}
  /\ calls = EmptyBag

\* a caller invokes fetchGames or concurrentUpdateGames(updater); the
\* service is configured or not (github.ts 116-127, 185-196)
Begin(op, tf, configured) ==
  /\ BagCardinality(calls) < MaxCalls
  /\ calls' = calls (+) SetToBag({
       IF configured THEN NewCall(op, tf)
       ELSE Finish(NewCall(op, tf), Null, "unconfigured")})
  /\ UNCHANGED remote

\* fetchGames: the GET and everything after it (github.ts 129-160)
FetchGames(c) ==
  /\ c.op = "fetch" /\ c.pc = "get"
  /\ \E resp \in GetResponses :
       calls' = Step(c, Finish([c EXCEPT !.gets = @ + 1, !.got = resp.kind],
                               FetchGamesResult(resp),
                               IF FetchGamesResult(resp).ok THEN "" ELSE "fetch"))
  /\ UNCHANGED remote

\* concurrentUpdateGames from the GET to the point where the PUT is issued:
\* fetchRawFile, decode, updater (github.ts 198-228).  Nothing between the
\* GET's answer and the PUT request reads or writes the remote document.
Fetch(c0) ==
  /\ c0.op = "update" /\ c0.pc = "get"
  /\ \E resp \in GetResponses :
       LET fd  == FetchRawFile(resp)
           c   == [c0 EXCEPT !.gets = @ + 1, !.got = resp.kind,
                             !.garbled = fd.hasData /\ Decode(fd.blob).threw]
           dec == IF fd.hasData THEN Decode(fd.blob)
                  ELSE [threw |-> FALSE, games |-> <<>>]
           out == ApplyTransform(c.tf, dec.games)
       IN calls' = Step(c0,
            IF ~fd.ok THEN Finish(c, Null, "fetch")
            ELSE IF dec.threw
              THEN Finish([c EXCEPT !.sha = fd.sha], OnException("decode"), "decode")
            ELSE IF out.threw
              THEN Finish([c EXCEPT !.sha = fd.sha, !.list = dec.games,
                                    !.tfCalls = @ + 1],
                          OnException("transform"), "transform")
              ELSE [c EXCEPT !.pc = "put", !.sha = fd.sha, !.list = dec.games,
                             !.tfCalls = @ + 1, !.newGames = out.games])
  /\ UNCHANGED remote

\* the PUT and the handling of its response (github.ts 230-260)
Put(c0) ==
  /\ c0.op = "update" /\ c0.pc = "put"
  /\ \E outcome \in PutOutcomes :
       LET c        == [c0 EXCEPT !.puts = @ + 1]
           reached  == outcome \in {"dropped", "done"}
           accepted == reached /\ RemoteAccepts(PutSha(c))
           status   == IF outcome = "done" THEN PutStatus(accepted) ELSE outcome
           cause    == CASE outcome \in {"lost", "dropped"} -> "neterr"
                         [] status = "409" -> "conflict"
                         [] status = "ok"  -> ""
                         [] OTHER          -> "error"
           d        == [c EXCEPT !.committed = @ \/ accepted, !.cause = cause,
                                 !.replaced = IF accepted /\ remote.exists
                                              THEN Decode(remote.blob).games ELSE @]
       IN /\ remote' = IF accepted
                         THEN [exists |-> TRUE, blob |-> PutBody(c),
                               sha |-> remote.sha + 1]
                         ELSE remote
          /\ calls' = Step(c0,
               IF outcome \in {"lost", "dropped"}
                 THEN Finish(d, OnException("put"), cause)
               ELSE IF AfterPut(status) = "done"
                 THEN Finish(d, UpdateResult(status, c.newGames), cause)
                 ELSE [d EXCEPT !.pc = AfterPut(status)])

\* the API never answers the GET: fetch(apiUrl, { headers }) is given no
\* signal and no timer runs beside it, so its promise never settles
\* (github.ts 130, 277)
GetHangs(c) ==
  /\ c.pc = "get"
  /\ calls' = Step(c, [c EXCEPT !.pc = "hung", !.gets = @ + 1, !.got = "silent"])
  /\ UNCHANGED remote

\* the API never answers the PUT, having processed the request or not
\* (github.ts 230-238, again without signal or timer)
PutHangs(c0) ==
  /\ c0.op = "update" /\ c0.pc = "put"
  /\ \E reached \in BOOLEAN :
       LET c        == [c0 EXCEPT !.puts = @ + 1]
           accepted == reached /\ RemoteAccepts(PutSha(c))
       IN /\ remote' = IF accepted
                         THEN [exists |-> TRUE, blob |-> PutBody(c),
                               sha |-> remote.sha + 1]
                         ELSE remote
          /\ calls' = Step(c0,
               [c EXCEPT !.pc = "hung", !.cause = "silent",
                         !.committed = @ \/ accepted,
                         !.replaced = IF accepted /\ remote.exists
                                      THEN Decode(remote.blob).games ELSE @])

GitHubNext ==
  \/ \E tf \in Transforms, cfg \in BOOLEAN : Begin("update", tf, cfg)
  \/ \E cfg \in BOOLEAN : Begin("fetch", [kind |-> "throw", g |-> "A"], cfg)
  \/ \E c \in Calls : FetchGames(c)
  \/ \E c \in Calls : Fetch(c)
  \/ \E c \in Calls : Put(c)
  \/ \E c \in Calls : GetHangs(c)
  \/ \E c \in Calls : PutHangs(c)

(***************************************************************************)
(* SteamService (backend/internal/services/steam.go).                      *)
(***************************************************************************)
\* searchCacheDuration = 10 * time.Minute, in minutes
searchCacheDuration == 10

\* time.NewTicker(5 * time.Minute), in minutes; the clock is read at
\* multiples of this period, which gives entries of every age class:
\* younger than, exactly as old as, and older than searchCacheDuration
cleanupInterval == 5

\* queries are sequences of characters; " " is the only whitespace used
Queries == {<<>>, <<"x">>}
\* queries that differ in surrounding whitespace only
PaddedQueries == {<<"x">>, <<"x", " ">>}
\* queries without a visible character
BlankQueries == {<<>>, <<" ">>}
Limits == {1, 2}
Threads == {"g1", "g2"}

RECURSIVE TrimLeft(_)
TrimLeft(q) == IF q # <<>> /\ Head(q) = " " THEN TrimLeft(Tail(q)) ELSE q

RECURSIVE TrimRight(_)
TrimRight(q) ==
  IF q # <<>> /\ q[Len(q)] = " " THEN TrimRight(SubSeq(q, 1, Len(q) - 1)) ELSE q

\* a Search that keys the cache by the query as typed
TrimSpaceNone(q) == q

\* strings.TrimSpace
TrimSpace(q) == TrimRight(TrimLeft(q))

\* a key made of the query alone
CacheKeyNoLimit(query, limit) == <<query, 0>>

\* fmt.Sprintf("%s:%d", query, limit) (steam.go 160)
CacheKey(query, limit) == <<query, limit>>

Keys ==
  {CacheKey(TrimSpace(q), l) : q \in (Queries \cup PaddedQueries \cup BlankQueries) \ {<<>>}, l \in Limits}

\* bodies the store search API may answer with: items with id and type
UpstreamBodies ==
  {<<[id |-> 1, type |-> "app"], [id |-> 2, type |-> "dlc"], [id |-> 3, type |-> "app"]>>,
   <<[id |-> 3, type |-> "app"]>>}

\* a loop that takes the first `limit` items whatever their type
FilterAppsAnyType(items, limit, apps) ==
  [k \in 1..(IF Len(items) < limit THEN Len(items) ELSE limit) |-> items[k].id]

\* the loop of searchSteamStore (steam.go 122-131): the first `limit` items
\* of type "app", in order
RECURSIVE FilterApps(_, _, _)
FilterApps(items, limit, apps) ==
  IF items = <<>> THEN apps
  ELSE FilterApps(Tail(items), limit,
         IF Head(items).type = "app" /\ Len(apps) < limit
           THEN Append(apps, Head(items).id) ELSE apps)

\* a search that turns an upstream failure into an empty result
SearchSteamStoreSwallow(answer, limit) ==
  IF answer.kind = "ok"
    THEN [err |-> FALSE, apps |-> FilterApps(answer.items, limit, <<>>)]
    ELSE [err |-> FALSE, apps |-> <<>>]

\* searchSteamStore (steam.go 96-134) for an upstream answer
SearchSteamStore(answer, limit) ==
  IF answer.kind = "ok"
    THEN [err |-> FALSE, apps |-> FilterApps(answer.items, limit, <<>>)]
    ELSE [err |-> TRUE, apps |-> <<>>]

\* the ways the upstream call can fail: the request fails, the client's
\* 30 s Timeout (steam.go 91) abandons an endpoint that does not answer,
\* the status is not 200, the body does not decode
UpstreamFailures == {"neterr", "timeout", "status", "decode"}

\* what the upstream call can end with
UpstreamAnswers ==
  {[kind |-> k, items |-> <<>>] : k \in UpstreamFailures}
  \cup {[kind |-> "ok", items |-> b] : b \in UpstreamBodies}

NoEntry == [has |-> FALSE, results |-> <<>>, timestamp |-> 0]
Entry(results, t) == [has |-> TRUE, results |-> results, timestamp |-> t]

\* history of the populations: the entry, the query and limit of the call
\* that stored it, and the items of the upstream response it was made from
NoStamp ==
  [has |-> FALSE, results |-> <<>>, timestamp |-> 0, query |-> <<>>, limit |-> 0,
   items |-> <<>>]
Stamp(entry, query, limit, items) ==
  [has |-> entry.has, results |-> entry.results, timestamp |-> entry.timestamp,
   query |-> query, limit |-> limit, items |-> items]

\* a population that keeps the entry a concurrent call has just stored
StoredEntryKeepFirst(old, results, t) ==
  IF old.has /\ t - old.timestamp < searchCacheDuration THEN old ELSE Entry(results, t)

\* s.searchCache[cacheKey] = &searchCacheEntry{...} (steam.go 182-185)
StoredEntry(old, results, t) == Entry(results, t)

\* an entry served although its age has reached the duration
IsFreshInclusive(entry, t) == t - entry.timestamp <= searchCacheDuration

\* time.Since(cached.timestamp) < searchCacheDuration (steam.go 165)
IsFresh(entry, t) == t - entry.timestamp < searchCacheDuration

\* a sweep that drops young entries too
IsExpiredEarly(entry, t) == t - entry.timestamp > 0

\* a sweep that drops nothing
IsExpiredNever(entry, t) == FALSE

\* now.Sub(entry.timestamp) > searchCacheDuration (steam.go 145)
IsExpired(entry, t) == t - entry.timestamp > searchCacheDuration

Idle ==
  [pc |-> "idle", query |-> <<>>, key |-> CacheKey(<<>>, 0), limit |-> 0,
   err |-> FALSE, res |-> <<>>, hit |-> FALSE, upstreamCalls |-> 0,
   failed |-> FALSE, fresh |-> <<>>, looked |-> FALSE, lookedAt |-> 0,
   seen |-> NoStamp, cached |-> 0, items |-> <<>>]

InitSteam ==
  /\ searchCache = [k \in Keys |-> NoEntry]
  /\ lastStored = [k \in Keys |-> NoStamp]
  /\ mu = [readers |-> {}, writer |-> "none"]
  /\ now = 0
  /\ th = [t \in Threads |-> Idle]
  /\ sweeper = "wait"

\* sync.RWMutex: a goroutine blocked in Lock() keeps new readers out
WriterPending == sweeper = "locking" \/ \E t \in Threads : th[t].pc = "lock"

\* RLock() returns: no writer inside and none waiting
CanRLock == mu.writer = "none" /\ ~WriterPending

\* Lock() returns: nobody inside
CanLock == mu.writer = "none" /\ mu.readers = {}

\* time passes
Tick ==
  /\ now + cleanupInterval <= MaxTime
  /\ now' = now + cleanupInterval
  /\ UNCHANGED <<searchCache, lastStored, mu, th, sweeper>>

\* Search is called (steam.go 154-160): the empty string returns an empty
\* list at once; any other query is trimmed and keyed
SearchCall(t, query, limit) ==
  /\ th[t].pc \in {"idle", "ret"}
  /\ th' = [th EXCEPT ![t] =
       IF query = <<>> THEN [Idle EXCEPT !.pc = "ret"]
       ELSE [Idle EXCEPT !.pc = "rlock", !.query = query, !.limit = limit,
                         !.key = CacheKey(TrimSpace(query), limit)]]
  /\ UNCHANGED <<searchCache, lastStored, mu, now, sweeper>>

\* s.mu.RLock() (steam.go 163)
SearchRLock(t) ==
  /\ th[t].pc = "rlock"
  /\ CanRLock
  /\ mu' = [mu EXCEPT !.readers = @ \cup {t}]
  /\ th' = [th EXCEPT ![t].pc = "lookup"]
  /\ UNCHANGED <<searchCache, lastStored, now, sweeper>>

\* a lookup that gives the read lock back on the hit path only
ReadersAfterLookupHitOnly(t, hit) == IF hit THEN mu.readers \ {t} ELSE mu.readers

\* s.mu.RUnlock() on the hit path (steam.go 166) and on the miss path (171)
ReadersAfterLookup(t, hit) == mu.readers \ {t}

\* the lookup, RUnlock, and the return on a hit (steam.go 164-171)
SearchLookup(t) ==
  /\ th[t].pc = "lookup"
  /\ LET cached == searchCache[th[t].key]
         hit    == cached.has /\ IsFresh(cached, now)
         seenIt == [th[t] EXCEPT !.looked = TRUE, !.lookedAt = now,
                                 !.seen = lastStored[th[t].key]]
     IN /\ th' = [th EXCEPT ![t] =
             IF hit
               THEN [seenIt EXCEPT !.pc = "ret", !.hit = TRUE, !.res = cached.results]
               ELSE [seenIt EXCEPT !.pc = "upstream"]]
        /\ mu' = [mu EXCEPT !.readers = ReadersAfterLookup(t, hit)]
  /\ UNCHANGED <<searchCache, lastStored, now, sweeper>>

\* s.searchSteamStore(query, limit) returns (steam.go 173-178)
SearchUpstream(t) ==
  /\ th[t].pc = "upstream"
  /\ \E answer \in UpstreamAnswers :
       LET got == SearchSteamStore(answer, th[t].limit)
           c   == [th[t] EXCEPT !.upstreamCalls = @ + 1,
                                !.failed = (answer.kind \in UpstreamFailures)]
       IN th' = [th EXCEPT ![t] =
            IF got.err THEN [c EXCEPT !.pc = "ret", !.err = TRUE]
            ELSE [c EXCEPT !.pc = "lock", !.fresh = got.apps, !.items = answer.items]]
  /\ UNCHANGED <<searchCache, lastStored, mu, now, sweeper>>

\* a population under the read lock
SearchLockShared(t) ==
  /\ th[t].pc = "lock"
  /\ mu.writer = "none"
  /\ mu' = [mu EXCEPT !.readers = @ \cup {t}]
  /\ th' = [th EXCEPT ![t].pc = "store"]
  /\ UNCHANGED <<searchCache, lastStored, now, sweeper>>

\* s.mu.Lock() (steam.go 181)
SearchLock(t) ==
  /\ th[t].pc = "lock"
  /\ CanLock
  /\ mu' = [mu EXCEPT !.writer = t]
  /\ th' = [th EXCEPT ![t].pc = "store"]
  /\ UNCHANGED <<searchCache, lastStored, now, sweeper>>

\* the entry is stored with time.Now(), Unlock, return apps (steam.go 182-188)
SearchStore(t) ==
  /\ th[t].pc = "store"
  /\ searchCache' = [searchCache EXCEPT ![th[t].key] =
       StoredEntry(searchCache[th[t].key], th[t].fresh, now)]
  /\ lastStored' = [lastStored EXCEPT ![th[t].key] =
       Stamp(Entry(th[t].fresh, now), th[t].query, th[t].limit, th[t].items)]
  /\ mu' = [readers |-> mu.readers \ {t}, writer |-> "none"]
  /\ th' = [th EXCEPT ![t].pc = "ret", ![t].res = th[t].fresh]
  /\ UNCHANGED <<now, sweeper>>

\* GetCacheStats is called (steam.go 218)
StatsCall(t) ==
  /\ th[t].pc \in {"idle", "ret"}
  /\ th' = [th EXCEPT ![t] = [Idle EXCEPT !.pc = "statsrlock"]]
  /\ UNCHANGED <<searchCache, lastStored, mu, now, sweeper>>

\* s.mu.RLock() (steam.go 219)
StatsRLock(t) ==
  /\ th[t].pc = "statsrlock"
  /\ CanRLock
  /\ mu' = [mu EXCEPT !.readers = @ \cup {t}]
  /\ th' = [th EXCEPT ![t].pc = "stats"]
  /\ UNCHANGED <<searchCache, lastStored, now, sweeper>>

\* len(s.searchCache), the deferred RUnlock, return (steam.go 220-225)
StatsRead(t) ==
  /\ th[t].pc = "stats"
  /\ th' = [th EXCEPT ![t].pc = "ret",
                      ![t].cached = Cardinality({k \in Keys : searchCache[k].has})]
  /\ mu' = [mu EXCEPT !.readers = @ \ {t}]
  /\ UNCHANGED <<searchCache, lastStored, now, sweeper>>

\* the ticker fires and the cleanup goroutine calls Lock (steam.go 141-142)
SweepTick ==
  /\ sweeper = "wait"
  /\ sweeper' = "locking"
  /\ UNCHANGED <<searchCache, lastStored, mu, now, th>>

\* s.mu.Lock() returns (steam.go 142)
SweepLock ==
  /\ sweeper = "locking"
  /\ CanLock
  /\ mu' = [mu EXCEPT !.writer = "sweeper"]
  /\ sweeper' = "sweep"
  /\ UNCHANGED <<searchCache, lastStored, now, th>>

\* one cleanup cycle and Unlock (steam.go 143-149)
Sweep ==
  /\ sweeper = "sweep"
  /\ searchCache' = [k \in Keys |->
       IF searchCache[k].has /\ IsExpired(searchCache[k], now)
         THEN NoEntry ELSE searchCache[k]]
  /\ mu' = [mu EXCEPT !.writer = "none"]
  /\ sweeper' = "wait"
  /\ UNCHANGED <<lastStored, now, th>>

\* the steps of the goroutines once they are inside a call, and the sweep
SteamSteps ==
  \/ Tick
  \/ \E t \in Threads : SearchRLock(t)
  \/ \E t \in Threads : SearchLookup(t)
  \/ \E t \in Threads : SearchUpstream(t)
  \/ \E t \in Threads : SearchLock(t)
  \/ \E t \in Threads : SearchStore(t)
  \/ \E t \in Threads : StatsRLock(t)
  \/ \E t \in Threads : StatsRead(t)
  \/ SweepTick
  \/ SweepLock
  \/ Sweep

SteamNext ==
  \/ \E t \in Threads, q \in Queries, l \in Limits : SearchCall(t, q, l)
  \/ \E t \in Threads : StatsCall(t)
  \/ SteamSteps

\* callers whose queries differ in surrounding whitespace only
PaddedNext ==
  \/ \E t \in Threads, q \in PaddedQueries : SearchCall(t, q, 1)
  \/ \E t \in Threads : StatsCall(t)
  \/ SteamSteps

\* callers of one query with one limit
SingleNext ==
  \/ \E t \in Threads : SearchCall(t, <<"x">>, 1)
  \/ \E t \in Threads : StatsCall(t)
  \/ SteamSteps

\* callers that only send queries without a visible character
BlankNext ==
  \/ \E t \in Threads, q \in BlankQueries : SearchCall(t, q, 1)
  \/ \E t \in Threads : StatsCall(t)
  \/ SteamSteps

(***************************************************************************)
(* Process start: GetSteamService and createHTTPClient (steam.go 37-93).   *)
(***************************************************************************)
\* what an environment variable can hold: nothing, an address or URL the
\* library accepts, or one it rejects
EnvValues == {"", "good", "bad"}
Envs == [HTTP_PROXY : EnvValues, HTTPS_PROXY : EnvValues, SOCKS_PROXY : EnvValues]
Starters == {"s1", "s2", "s3"}

Direct == [kind |-> "direct", from |-> "none"]

\* a client that looks at the HTTP proxy variables before SOCKS_PROXY
CreateHTTPClientHttpFirst(env) ==
  LET var == IF env.HTTP_PROXY = "" THEN "HTTPS_PROXY" ELSE "HTTP_PROXY"
  IN IF env[var] # ""
       THEN IF env[var] = "bad" THEN Direct ELSE [kind |-> "http", from |-> var]
     ELSE IF env.SOCKS_PROXY # ""
       THEN IF env.SOCKS_PROXY = "bad" THEN Direct
            ELSE [kind |-> "socks5", from |-> "SOCKS_PROXY"]
     ELSE Direct

\* createHTTPClient (steam.go 57-93): the transport the client is given
CreateHTTPClient(env) ==
  LET var == IF env.HTTP_PROXY = "" THEN "HTTPS_PROXY" ELSE "HTTP_PROXY"
  IN IF env.SOCKS_PROXY # ""
       THEN IF env.SOCKS_PROXY = "bad" THEN Direct
            ELSE [kind |-> "socks5", from |-> "SOCKS_PROXY"]
     ELSE IF env[var] # ""
       THEN IF env[var] = "bad" THEN Direct ELSE [kind |-> "http", from |-> var]
     ELSE Direct

NoInstance == 0

\* the package before the first call, in environment env
Booting(env) ==
  [env |-> env, once |-> "new", instance |-> NoInstance, client |-> Direct,
   created |-> 0, resolved |-> 0, loops |-> 0]

InitStart ==
  /\ boot \in {Booting(env) : env \in Envs}
  /\ starters = [g \in Starters |-> [pc |-> "idle", got |-> NoInstance]]

\* a goroutine calls GetSteamService (steam.go 43)
GetSteamService(g) ==
  /\ starters[g].pc \in {"idle", "returned"}
  /\ starters' = [starters EXCEPT ![g] = [pc |-> "once", got |-> NoInstance]]
  /\ UNCHANGED boot

\* a Do that lets a caller in while the first one is still inside
OnceEnterUnguarded(g) ==
  /\ starters[g].pc = "once" /\ boot.once # "done"
  /\ boot' = [boot EXCEPT !.once = "running"]
  /\ starters' = [starters EXCEPT ![g].pc = "create"]

\* once.Do(func() {...}) for the first caller (steam.go 44)
OnceEnter(g) ==
  /\ starters[g].pc = "once" /\ boot.once = "new"
  /\ boot' = [boot EXCEPT !.once = "running"]
  /\ starters' = [starters EXCEPT ![g].pc = "create"]

\* instance = &SteamService{..., httpClient: createHTTPClient()} (45-48)
CreateInstance(g) ==
  /\ starters[g].pc = "create"
  /\ boot' = [boot EXCEPT !.instance = boot.created + 1, !.created = @ + 1,
                          !.resolved = @ + 1, !.client = CreateHTTPClient(boot.env)]
  /\ starters' = [starters EXCEPT ![g].pc = "spawn"]

\* go instance.startCacheCleanup(), and Do returns (steam.go 51-52)
StartCleanup(g) ==
  /\ starters[g].pc = "spawn"
  /\ boot' = [boot EXCEPT !.loops = @ + 1, !.once = "done"]
  /\ starters' = [starters EXCEPT ![g].pc = "return"]

\* once.Do for a caller that finds the function already run; a caller that
\* arrives while it runs waits until it has returned
OncePass(g) ==
  /\ starters[g].pc = "once" /\ boot.once = "done"
  /\ starters' = [starters EXCEPT ![g].pc = "return"]
  /\ UNCHANGED boot

\* return instance (steam.go 53)
ReturnInstance(g) ==
  /\ starters[g].pc = "return"
  /\ starters' = [starters EXCEPT ![g] = [pc |-> "returned", got |-> boot.instance]]
  /\ UNCHANGED boot

StartNext ==
  \/ \E g \in Starters : GetSteamService(g)
  \/ \E g \in Starters : OnceEnter(g)
  \/ \E g \in Starters : CreateInstance(g)
  \/ \E g \in Starters : StartCleanup(g)
  \/ \E g \in Starters : OncePass(g)
  \/ \E g \in Starters : ReturnInstance(g)

(***************************************************************************)
(* The App's handlers (apps/web/src/App/index.tsx), one App per browser.   *)
(* A handler runs up to its await in one step and continues when the call  *)
(* it awaits has returned.                                                 *)
(***************************************************************************)
\* an App that shows list L and waits for its user.  before = the games
\* state when the running handler began, failed = the call the handler
\* awaited returned null
Loaded(L) ==
  [pc |-> "idle", handler |-> "", games |-> L, before |-> L, said |-> "",
   failed |-> FALSE, newGame |-> NoGame, data |-> <<>>]

\* the document holds game A, in the retired status or migrated, and both
\* browsers show it
InitApp ==
  /\ \E status \in {"pending", "queueing"} :
       /\ remote = [exists |-> TRUE, blob |-> Encode(<<OldGame(status)>>), sha |-> 1]
       /\ ui = [c \in Clients |-> Loaded(<<OldGame(status)>>)]
  /\ calls = EmptyBag
  /\ clock = 1

\* no App is open
Closed ==
  /\ ui = [c \in Clients |-> Loaded(<<>>)]
  /\ clock = 1

\* the call a handler of client c awaits
Awaited(c, kinds) == {r \in Calls : r.tf.client = c /\ r.tf.kind \in kinds}

\* a handler of client c begins and runs to its await or to an early
\* return
BeginHandler(c, handler, pc) ==
  [ui[c] EXCEPT !.pc = pc, !.handler = handler, !.before = ui[c].games,
                !.said = "", !.failed = FALSE]

\* a millisecond passes
ClockTick ==
  /\ clock < MaxClock
  /\ clock' = clock + 1
  /\ UNCHANGED <<remote, calls, ui>>

\* handleAddGameFromSteam up to its await (index.tsx 141-186)
AddStart(c, name) ==
  /\ ui[c].pc = "idle"
  /\ IF HasName(ui[c].games, name)
       THEN /\ ui' = [ui EXCEPT ![c] = [BeginHandler(c, "add", "finished")
                                          EXCEPT !.said = "duplicate"]]
            /\ UNCHANGED <<remote, calls>>
       ELSE LET newGame == NewGame(clock, name)
            IN /\ Begin("update", Updater("addGame", c, newGame.id, newGame,
                                          FALSE, <<>>), TRUE)
               /\ ui' = [ui EXCEPT ![c] = [BeginHandler(c, "add", "adding")
                                             EXCEPT !.newGame = newGame]]
  /\ UNCHANGED clock

\* a check that looks for the new record itself, not only for its id
GameAddedByRecord(finalGames, newGame) == newGame \in Range(finalGames)

\* finalGames.some(g => g.id === newGame.id) (index.tsx 195)
GameAdded(finalGames, newGame) == HasId(finalGames, newGame.id)

\* handleAddGameFromSteam after the call returned (index.tsx 188-203)
AddDone(c) ==
  /\ ui[c].pc = "adding"
  /\ \E r \in Awaited(c, {"addGame"}) :
       /\ r.pc = "done"
       /\ ui' = [ui EXCEPT ![c] =
            IF ~r.result.ok
              THEN [@ EXCEPT !.pc = "finished", !.said = "failed", !.failed = TRUE]
            ELSE IF ~GameAdded(r.result.games, ui[c].newGame)
              THEN [@ EXCEPT !.pc = "finished", !.said = "duplicate"]
              ELSE [@ EXCEPT !.pc = "added", !.said = "added", !.games = r.result.games]]
  /\ UNCHANGED <<remote, calls, clock>>

\* the new game needs no further data, or the Steam calls gave none
\* (index.tsx 206-242)
MetaSkip(c) ==
  /\ ui[c].pc = "added"
  /\ ui' = [ui EXCEPT ![c].pc = "finished"]
  /\ UNCHANGED <<remote, calls, clock>>

\* the review data arrived: setGames(prevGames => ...) and then the save
\* (index.tsx 244-275)
MetaStart(c) ==
  /\ ui[c].pc = "added"
  /\ Begin("update", Updater("saveMeta", c, ui[c].newGame.id, ui[c].newGame,
                             FALSE, <<>>), TRUE)
  /\ ui' = [ui EXCEPT ![c] = [BeginHandler(c, "meta", "savingMeta")
                                EXCEPT !.games = SaveMeta(ui[c].newGame.id, ui[c].games)]]
  /\ UNCHANGED clock

\* the follow-up save returned: a failure is only logged (index.tsx 277-286)
MetaDone(c) ==
  /\ ui[c].pc = "savingMeta"
  /\ \E r \in Awaited(c, {"saveMeta"}) :
       /\ r.pc = "done"
       /\ ui' = [ui EXCEPT ![c].pc = "finished", ![c].failed = ~r.result.ok]
  /\ UNCHANGED <<remote, calls, clock>>

\* handleUpdateGame, handleDeleteGame, handlePinGame up to their await
\* (index.tsx 289-300, 311-320, 332-350); a user edits once, as the first
\* action or after an add
EditStart(c, kind, id) ==
  /\ ui[c].pc \in {"idle", "finished"} /\ ui[c].handler \in {"", "add", "meta"}
  /\ IF ~HasId(ui[c].games, id)
       THEN /\ ui' = [ui EXCEPT ![c] = BeginHandler(c, "edit", "finished")]
            /\ UNCHANGED <<remote, calls>>
       ELSE LET game == ui[c].games[CHOOSE i \in 1..Len(ui[c].games) :
                                      /\ ui[c].games[i].id = id
                                      /\ \A j \in 1..(i - 1) : ui[c].games[j].id # id]
            IN /\ Begin("update", Updater(kind, c, id, game,
                                          ~game.pinned, <<>>), TRUE)
               /\ ui' = [ui EXCEPT ![c] = BeginHandler(c, "edit", "editing")]
  /\ UNCHANGED clock

\* the three handlers after the call returned (index.tsx 302-308, 322-329,
\* 352-359)
EditDone(c) ==
  /\ ui[c].pc = "editing"
  /\ \E r \in Awaited(c, EditKinds) :
       /\ r.pc = "done"
       /\ ui' = [ui EXCEPT ![c] =
            IF ~r.result.ok
              THEN [@ EXCEPT !.pc = "finished", !.said = "failed", !.failed = TRUE]
              ELSE [@ EXCEPT !.pc = "finished", !.games = r.result.games]]
  /\ UNCHANGED <<remote, calls, clock>>

\* the page is opened again: games starts empty and loadGames calls
\* fetchGames (index.tsx 33, 61-71)
LoadStart(c) ==
  /\ ui[c].pc = "idle"
  /\ Begin("fetch", Updater("load", c, 0, NoGame, FALSE, <<>>), TRUE)
  /\ ui' = [ui EXCEPT ![c] = [Loaded(<<>>) EXCEPT !.pc = "loading", !.handler = "load"]]
  /\ UNCHANGED clock

\* loadGames after fetchGames returned (index.tsx 73-108)
LoadFetched(c) ==
  /\ ui[c].pc = "loading"
  /\ \E r \in Awaited(c, {"load"}) :
       /\ r.pc = "done"
       /\ IF ~r.result.ok
            THEN /\ ui' = [ui EXCEPT ![c].pc = "finished", ![c].said = "failed",
                                     ![c].failed = TRUE]
                 /\ UNCHANGED <<remote, calls>>
          ELSE IF HasPending(r.result.games)
            THEN /\ Begin("update", Updater("setList", c, 0, NoGame, FALSE,
                                            Migrate(r.result.games)), TRUE)
                 /\ ui' = [ui EXCEPT ![c].pc = "migrating",
                                     ![c].data = r.result.games]
            ELSE /\ ui' = [ui EXCEPT ![c].pc = "finished", ![c].games = r.result.games]
                 /\ UNCHANGED <<remote, calls>>
  /\ UNCHANGED clock

\* loadGames after updateGames returned (index.tsx 96-105)
MigrateDone(c) ==
  /\ ui[c].pc = "migrating"
  /\ \E r \in Awaited(c, {"setList"}) :
       /\ r.pc = "done"
       /\ ui' = [ui EXCEPT ![c] =
            IF ~r.result.ok
              THEN [@ EXCEPT !.pc = "finished", !.said = "failed", !.failed = TRUE,
                             !.games = ui[c].data]
              ELSE [@ EXCEPT !.pc = "finished", !.games = r.result.games]]
  /\ UNCHANGED <<remote, calls, clock>>

\* the steps of the service inside the calls the handlers made
ServiceGet ==
  /\ \/ \E r \in Calls : FetchGames(r)
     \/ \E r \in Calls : Fetch(r)
  /\ UNCHANGED appVars

ServicePut ==
  /\ \E r \in Calls : Put(r)
  /\ UNCHANGED appVars

AppNext ==
  \/ ClockTick
  \/ \E c \in Clients : \E name \in NewNames(c) : AddStart(c, name)
  \/ \E c \in Clients : AddDone(c)
  \/ \E c \in Clients : MetaSkip(c)
  \/ \E c \in Clients : MetaStart(c)
  \/ \E c \in Clients : MetaDone(c)
  \/ \E c \in Clients, kind \in EditKinds, id \in 0..MaxClock : EditStart(c, kind, id)
  \/ \E c \in Clients : EditDone(c)
  \/ \E c \in Clients : LoadStart(c)
  \/ \E c \in Clients : LoadFetched(c)
  \/ \E c \in Clients : MigrateDone(c)
  \/ ServiceGet
  \/ ServicePut

(***************************************************************************)
(* Specifications.                                                         *)
(***************************************************************************)
\* the backend started in an environment without proxy settings
Started ==
  /\ boot = Booting([HTTP_PROXY |-> "", HTTPS_PROXY |-> "", SOCKS_PROXY |-> ""])
  /\ starters = [g \in Starters |-> [pc |-> "idle", got |-> NoInstance]]

Init == InitGitHub /\ InitSteam /\ Started /\ Closed

Next == GitHubNext /\ UNCHANGED outsideGitHub

Spec == Init /\ [][Next]_vars

InitCache ==
  /\ remote = [exists |-> FALSE, blob |-> Garbled, sha |-> NoSha]
  /\ calls = EmptyBag
  /\ InitSteam
  /\ Started
  /\ Closed

NextCache == SteamNext /\ UNCHANGED outsideSteam

SpecCache == InitCache /\ [][NextCache]_vars

NextPadded == PaddedNext /\ UNCHANGED outsideSteam

SpecPadded == InitCache /\ [][NextPadded]_vars

NextBlank == BlankNext /\ UNCHANGED outsideSteam

SpecBlank == InitCache /\ [][NextBlank]_vars

NextSingle == SingleNext /\ UNCHANGED outsideSteam

\* the cleanup goroutine runs for the life of the process and its ticker
\* keeps firing (steam.go 51, 138-141); a goroutine inside a locked section
\* runs on to its Unlock; Lock() returns once the sections before it have
\* ended (sync.RWMutex keeps new readers out while a Lock() is waiting)
FairCleanup ==
  /\ WF_vars(SweepTick /\ UNCHANGED outsideSteam)
  /\ WF_vars(SweepLock /\ UNCHANGED outsideSteam)
  /\ WF_vars(Sweep /\ UNCHANGED outsideSteam)
  /\ \A t \in Threads :
       /\ WF_vars(SearchLookup(t) /\ UNCHANGED outsideSteam)
       /\ WF_vars(SearchStore(t) /\ UNCHANGED outsideSteam)
       /\ WF_vars(StatsRead(t) /\ UNCHANGED outsideSteam)

SpecSweepLive == InitCache /\ [][NextSingle]_vars /\ FairCleanup

InitBoot ==
  /\ remote = [exists |-> FALSE, blob |-> Garbled, sha |-> NoSha]
  /\ calls = EmptyBag
  /\ InitSteam
  /\ InitStart
  /\ Closed

NextBoot == StartNext /\ UNCHANGED outsideStart

SpecBoot == InitBoot /\ [][NextBoot]_vars

InitAppOpen == InitApp /\ InitSteam /\ Started

NextApp == AppNext /\ UNCHANGED outsideApp

SpecApp == InitAppOpen /\ [][NextApp]_vars

(***************************************************************************)
(* Properties of the document store client.                                *)
(***************************************************************************)
Updates == {c \in Calls : c.op = "update"}
Fetches == {c \in Calls : c.op = "fetch"}
Done(c) == c.pc = "done"
Succeeded(c) == Done(c) /\ c.result.ok
Failed(c) == Done(c) /\ ~c.result.ok

\* the game list the remote document holds now (empty when not decodable)
RemoteGames == IF remote.exists THEN Decode(remote.blob).games ELSE <<>>
RemoteToken == IF remote.exists THEN remote.sha ELSE NoSha

\* how many of the invocations (counted with multiplicity) satisfy P
CountCalls(P(_)) ==
  LET S == {c \in Calls : P(c)}
  IN BagCardinality([c \in S |-> CopiesIn(c, calls)])

\* C1: no successful write is silently overwritten.  Every call that added
\* a game and reported success has its game in the remote document; hence
\* for a call adding B and a call adding C, the document holds both B and
\* C or one of the two calls returned failure.
C1_NoLostUpdate ==
  /\ \A c \in Updates :
       Succeeded(c) /\ c.tf.kind = "add" => c.tf.g \in Range(RemoteGames)
  /\ \A b, c \in Updates :
       b.tf = [kind |-> "add", g |-> "B"] /\ c.tf = [kind |-> "add", g |-> "C"]
         /\ Done(b) /\ Done(c)
       => \/ {"B", "C"} \subseteq Range(RemoteGames)
          \/ Failed(b) \/ Failed(c)

\* two calls, adding B and adding C, fetched the same version; one wrote,
\* the other met the conflict and returned failure
C1_Witness ==
  \E b, c \in Updates :
    /\ b.tf = [kind |-> "add", g |-> "B"] /\ c.tf = [kind |-> "add", g |-> "C"]
    /\ b.got = "ok" /\ c.got = "ok" /\ b.sha = c.sha
    /\ Succeeded(b) /\ Failed(c) /\ c.cause = "conflict"
    /\ "B" \in Range(RemoteGames) /\ "C" \notin Range(RemoteGames)

\* the calls whose fetch observed token v (NoSha: observed "not found") and
\* whose PUT the remote checked against its current token
Raced(v) ==
  {c \in Updates : c.tfCalls > 0 /\ c.sha = v /\ (c.committed \/ c.cause = "conflict")}

\* C2: among the calls that fetched the same version, exactly one write is
\* accepted and every other one fails with a conflict; a call whose fetched
\* version is still the current one holds the current list and its updater
\* ran on that list.
C2_OneWriterPerVersion ==
  /\ \A v \in 0..(MaxCalls + 1) :
       Raced(v) # {} =>
         /\ LET Won(c) == c \in Raced(v) /\ c.committed IN CountCalls(Won) = 1
         /\ \A c \in Raced(v) : ~c.committed => Failed(c) /\ c.cause = "conflict"
  /\ \A c \in Updates :
       c.pc = "put" /\ c.sha = RemoteToken =>
         /\ c.list = RemoteGames
         /\ c.newGames = ApplyTransform(c.tf, RemoteGames).games

\* two calls fetched the same version, one was accepted and the other met
\* the conflict; a third fetched after the commit and holds the new list
C2_Witness ==
  \E c, d, e \in Updates :
    /\ c.got = "ok" /\ d.got = "ok" /\ d.sha = c.sha
    /\ Succeeded(c) /\ Failed(d) /\ d.cause = "conflict"
    /\ e.pc = "put" /\ e.sha = c.sha + 1 /\ e.list = c.result.games
    /\ e.newGames # e.list

\* C3: a call whose write the remote rejected as stale returns failure
\* after that one attempt (one GET, one PUT), having written nothing.
C3_ConflictFailsOnce ==
  \A c \in Updates :
    c.cause = "conflict" =>
      /\ Done(c) /\ c.result = Null
      /\ c.gets = 1 /\ c.puts = 1 /\ c.tfCalls = 1
      /\ ~c.committed
      /\ c.sha # RemoteToken

C3_Witness ==
  \E c, d \in Updates :
    /\ c.cause = "conflict" /\ Done(c)
    /\ Succeeded(d) /\ d.sha = c.sha /\ remote.blob = Encode(d.result.games)

C5_FailureChangesNothing ==
  \A c \in Updates : Failed(c) => ~c.committed

\* C6: "not found" gives fetchGames an empty list and lets an update go on
\* with an empty list and no token; a network fault or another error status
\* gives null, never an empty list, and makes an update abort.
C6_NotFoundVsFailure ==
  /\ \A c \in Fetches :
       /\ c.got = "404" => Done(c) /\ c.result = Some(<<>>)
       /\ c.got \in {"neterr", "error"} => Done(c) /\ c.result = Null
  /\ \A c \in Updates :
       /\ c.got = "404" =>
            /\ c.tfCalls = 1 /\ c.list = <<>> /\ c.sha = NoSha
            /\ c.pc = "put" \/ c.puts = 1 \/ c.cause = "transform"
       /\ c.got \in {"neterr", "error"} =>
            Done(c) /\ c.result = Null /\ c.tfCalls = 0 /\ c.puts = 0

C6_Witness ==
  /\ \E c \in Fetches : c.got = "404" /\ Done(c)
  /\ \E c \in Fetches : c.got = "neterr" /\ Done(c)
  /\ \E c \in Updates : c.got = "404" /\ Succeeded(c) /\ Len(c.result.games) = 1

\* C7 as claimed: every finished call has made exactly one PUT.
C7_ExactlyOnePut ==
  \A c \in Updates : Done(c) => c.puts = 1

\* C7 as amended: a call makes at most one PUT; a finished call has made
\* one exactly when its fetch, its decode and its updater succeeded, and
\* none otherwise.
C7_AtMostOnePut ==
  \A c \in Updates :
    /\ c.puts <= 1
    /\ Done(c) =>
         (c.puts = 1 <=> c.cause \notin {"unconfigured", "fetch", "decode", "transform"})

C7_Witness ==
  /\ \E c \in Updates : Done(c) /\ c.puts = 1 /\ c.cause = "conflict"
  /\ \E c \in Updates : Done(c) /\ c.puts = 0 /\ c.cause = "fetch"

\* C8: a successful call has replaced the remote content by updater(L), L
\* being the list of the version it replaced (empty when there was none);
\* the updater ran once, on L, and the call returns updater(L).
C8_SuccessWritesTransform ==
  \A c \in Updates :
    Succeeded(c) =>
      /\ c.committed /\ c.tfCalls = 1 /\ c.puts = 1
      /\ c.list = c.replaced
      /\ c.result = Some(ApplyTransform(c.tf, c.replaced).games)
      /\ RemoteToken = c.sha + 1 => remote.blob = Encode(c.result.games)

C8_Witness ==
  \E c \in Updates :
    /\ Succeeded(c) /\ c.tf.kind = "add" /\ Len(c.replaced) = 2
    /\ RemoteToken = c.sha + 1 /\ Len(RemoteGames) = 3

\* C9: a call whose fetch failed or whose fetched content does not decode
\* returns failure without running the updater and without a PUT.
C9_FetchFailureAborts ==
  \A c \in Updates :
    c.got \in {"neterr", "error"} \/ c.garbled =>
      Done(c) /\ c.result = Null /\ c.tfCalls = 0 /\ c.puts = 0

C9_Witness ==
  /\ \E c \in Updates : c.got = "error" /\ Done(c)
  /\ \E c \in Updates : c.garbled /\ Done(c)

(***************************************************************************)
(* Properties of the search cache.                                         *)
(***************************************************************************)
\* the age, at the lookup of goroutine t, of the entry last stored under
\* its key
SeenAge(t) == th[t].lookedAt - th[t].seen.timestamp

\* C10: a Search that looks its key up while the entry last stored under it
\* is younger than searchCacheDuration returns that entry's results without
\* an upstream call; once the entry's age has reached searchCacheDuration
\* the Search goes upstream and returns what upstream gave, whether the
\* entry is still in the map or a sweep has removed it.
C10_TtlBoundary ==
  \A t \in Threads :
    th[t].looked /\ th[t].seen.has =>
      IF SeenAge(t) < searchCacheDuration
        THEN /\ th[t].hit /\ th[t].pc = "ret" /\ ~th[t].err
             /\ th[t].res = th[t].seen.results
             /\ th[t].upstreamCalls = 0
        ELSE /\ ~th[t].hit
             /\ th[t].pc \in {"upstream", "lock", "store", "ret"}
             /\ th[t].pc # "upstream" => th[t].upstreamCalls = 1
             /\ th[t].pc = "ret" /\ ~th[t].err => th[t].res = th[t].fresh

\* one goroutine was served an entry one step before its expiry, another
\* found the entry of its key exactly searchCacheDuration old, went
\* upstream and returned a different list; a sweep has removed an entry
C10_Witness ==
  /\ \E t \in Threads :
       /\ th[t].looked /\ th[t].seen.has /\ th[t].hit
       /\ SeenAge(t) = searchCacheDuration - cleanupInterval
  /\ \E t \in Threads :
       /\ th[t].looked /\ th[t].seen.has /\ SeenAge(t) = searchCacheDuration
       /\ th[t].pc = "ret" /\ ~th[t].err /\ th[t].res # th[t].seen.results
  /\ \E k \in Keys : lastStored[k].has /\ ~searchCache[k].has

\* a query without a visible character
IsBlank(q) == TrimSpace(q) = <<>>

\* C11: a Search whose query is empty or only whitespace returns an empty
\* list, makes no upstream call, and neither looks the cache up nor writes
\* to it.
C11_BlankShortCircuit ==
  /\ \A t \in Threads :
       th[t].pc \notin {"idle", "statsrlock", "stats"} /\ IsBlank(th[t].query) =>
         /\ th[t].pc = "ret" /\ ~th[t].err /\ th[t].res = <<>>
         /\ ~th[t].looked /\ th[t].upstreamCalls = 0
  /\ \A k \in Keys : IsBlank(k[1]) => ~lastStored[k].has

\* the lists a successful upstream search can give a call with this limit
UpstreamResults(limit) == {FilterApps(b, limit, <<>>) : b \in UpstreamBodies}

\* C12: a Search whose upstream call failed returns the error and stores
\* nothing: every entry in the map is the result of a successful upstream
\* call, and a Search that finds no entry under its key goes upstream, also
\* after another call for the key has failed.
C12_FailureNotCached ==
  /\ \A t \in Threads :
       th[t].failed =>
         /\ th[t].pc = "ret" /\ th[t].err /\ ~th[t].hit
         /\ th[t].res = <<>> /\ th[t].upstreamCalls = 1
  /\ \A k \in Keys :
       /\ searchCache[k].has => searchCache[k].results \in UpstreamResults(k[2])
       /\ lastStored[k].has => lastStored[k].results \in UpstreamResults(k[2])
  /\ \A t \in Threads :
       th[t].looked /\ ~th[t].seen.has =>
         /\ ~th[t].hit
         /\ th[t].pc # "upstream" => th[t].upstreamCalls = 1

\* one call has returned the upstream error; the map holds no entry for its
\* key, and a later lookup of the same key has gone upstream again
C12_Witness ==
  \E t, u \in Threads :
    /\ t # u /\ th[t].key = th[u].key
    /\ th[t].failed /\ th[t].pc = "ret" /\ th[t].err
    /\ ~lastStored[th[t].key].has /\ ~searchCache[th[t].key].has
    /\ th[u].looked /\ th[u].lookedAt > th[t].lookedAt
    /\ th[u].upstreamCalls = 1 /\ th[u].pc = "lock"

\* the key of the same query under another limit
OtherKeys(t) == {CacheKey(th[t].key[1], l) : l \in Limits \ {th[t].limit}}

\* C13 as stated: the limit is not part of the cache key, so a lookup made
\* while an entry stored for the same query under another limit is fresh
\* is answered from that entry without an upstream call.
C13_LimitNotInKey ==
  [][\A t \in Threads :
       th[t].pc = "lookup" /\ th'[t].looked =>
         \A k \in OtherKeys(t) :
           searchCache[k].has /\ IsFresh(searchCache[k], now) =>
             /\ th'[t].hit /\ th'[t].pc = "ret"
             /\ th'[t].res = searchCache[k].results]_vars

\* C13: the limit is part of the cache key.  A Search is answered from the
\* cache only by an entry that a call with the same limit stored; a Search
\* that finds no entry stored under its own query and limit goes upstream,
\* whatever is cached for the query under another limit.
C13_LimitInKey ==
  \A t \in Threads :
    th[t].looked =>
      /\ th[t].hit => th[t].seen.has /\ th[t].seen.limit = th[t].limit
      /\ ~th[t].seen.has =>
           /\ ~th[t].hit
           /\ th[t].pc # "upstream" => th[t].upstreamCalls = 1

\* Search(x, 1) stored its result at time 0; Search(x, 2), looking up at
\* time 5, found nothing under its key and has called upstream
C13_Witness ==
  \E t \in Threads :
    /\ th[t].looked /\ th[t].limit = 2 /\ th[t].lookedAt = cleanupInterval
    /\ ~th[t].seen.has /\ ~th[t].hit /\ th[t].upstreamCalls = 1
    /\ \E k \in OtherKeys(t) :
         /\ searchCache[k].has /\ searchCache[k].timestamp = 0
         /\ lastStored[k].limit = 1

\* who is inside a section of the mutex
Holders == mu.readers \cup (IF mu.writer = "none" THEN {} ELSE {mu.writer})

\* C14: a goroutine inside the upstream search call holds neither the read
\* lock nor the exclusive lock, and neither does one waiting to get in or
\* one that has returned; so when only upstream calls are in flight the
\* mutex is free for any lookup.
C14_UpstreamUnlocked ==
  /\ \A t \in Threads :
       th[t].pc \in {"upstream", "lock", "rlock", "ret", "idle"} => t \notin Holders
  /\ (\A t \in Threads : th[t].pc \in {"upstream", "rlock", "ret", "idle"})
       /\ sweeper = "wait" => CanRLock /\ CanLock

\* while one goroutine is still inside its upstream call, another looked
\* up a different key later, was served from the cache and has returned
C14_Witness ==
  \E t, u \in Threads :
    /\ th[u].pc = "upstream" /\ th[u].looked
    /\ th[t].pc = "ret" /\ th[t].hit /\ th[t].key # th[u].key
    /\ th[t].lookedAt > th[u].lookedAt

\* goroutine t missed the cache and its upstream call has returned a list
Populating(t) == th[t].looked /\ ~th[t].hit /\ th[t].pc \in {"lock", "store", "ret"} /\ ~th[t].err

\* C15: every Search that misses makes its own upstream call and returns
\* the list that call gave, also when another call for the same key is in
\* flight; the map holds one entry per key, the one stored by the latest
\* population.
C15_NoCoalescing ==
  /\ \A t \in Threads :
       Populating(t) =>
         /\ th[t].upstreamCalls = 1
         /\ th[t].pc = "ret" => th[t].res = th[t].fresh
  /\ \A k \in Keys :
       searchCache[k].has =>
         searchCache[k] = Entry(lastStored[k].results, lastStored[k].timestamp)

\* two calls for one key both looked up before any population of the key,
\* t before u; each returned its own, different list; the entry in the map
\* is the one of t, whose request went out first
C15_Witness ==
  \E t, u \in Threads :
    /\ t # u /\ th[t].key = th[u].key
    /\ Populating(t) /\ Populating(u) /\ th[t].pc = "ret" /\ th[u].pc = "ret"
    /\ ~th[t].seen.has /\ ~th[u].seen.has
    /\ th[t].lookedAt < th[u].lookedAt
    /\ th[t].res # th[u].res
    /\ searchCache[th[t].key].has /\ searchCache[th[t].key].results = th[t].res

\* who is reading the map, and who is about to change it
Reading == {t \in Threads : th[t].pc \in {"lookup", "stats"}}
Writing == {t \in Threads : th[t].pc = "store"} \cup (IF sweeper = "sweep" THEN {"sweeper"} ELSE {})

\* C16: the map is read only under the read lock (Search lookup,
\* GetCacheStats) and changed only under the exclusive lock (population,
\* sweep): whoever populates or sweeps is alone inside the mutex, readers
\* are inside together only with readers, and the map changes in no step
\* taken without the exclusive lock.
C16_LockDiscipline ==
  /\ [](/\ Reading = mu.readers
        /\ Writing = (IF mu.writer = "none" THEN {} ELSE {mu.writer})
        /\ Cardinality(Writing) <= 1
        /\ Writing # {} => Reading = {})
  /\ [][searchCache' # searchCache => mu.writer # "none" /\ mu.readers = {}]_vars

\* a Search lookup and GetCacheStats are inside their read sections at the
\* same time while the cleanup waits for the exclusive lock
C16_Witness ==
  /\ mu.readers = Threads
  /\ \E t, u \in Threads : th[t].pc = "lookup" /\ th[u].pc = "stats"
  /\ sweeper = "locking"

\* C17: a sweep cycle run at time now removes exactly the entries with
\* now - timestamp > searchCacheDuration and leaves every other entry, and
\* every absent key, as it was.
C17_SweepExact ==
  [][sweeper = "sweep" /\ sweeper' = "wait" =>
       \A k \in Keys :
         searchCache'[k] =
           IF searchCache[k].has /\ now - searchCache[k].timestamp > searchCacheDuration
             THEN NoEntry ELSE searchCache[k]]_vars

\* entries stored at times 0 and 5 and a sweep at time 15: the first, 15
\* minutes old, is gone; the second, exactly searchCacheDuration old, is
\* still there with its results and timestamp
C17_Witness ==
  /\ sweeper = "wait" /\ now = searchCacheDuration + cleanupInterval
  /\ \E k1, k2 \in Keys :
       /\ lastStored[k1].has /\ lastStored[k1].timestamp = 0 /\ ~searchCache[k1].has
       /\ searchCache[k2].has /\ searchCache[k2].timestamp = cleanupInterval
       /\ now - searchCache[k2].timestamp = searchCacheDuration
       /\ searchCache[k2].results = lastStored[k2].results

\* the entry under k is in the map and older than searchCacheDuration
Overdue(k) == searchCache[k].has /\ now - searchCache[k].timestamp > searchCacheDuration

\* C18: an entry whose age has exceeded searchCacheDuration is eventually
\* deleted by the cleanup or replaced by a fresh population, whether or not
\* a Search for its key is issued again.
C18_ExpiredEventuallyGone == \A k \in Keys : Overdue(k) ~> ~Overdue(k)

\* the entry stored for a key has been deleted after its expiry while no
\* call is in progress
C18_Witness ==
  /\ \A t \in Threads : th[t].pc \in {"idle", "ret"}
  /\ sweeper = "wait" /\ mu.writer = "none"
  /\ \E k \in Keys :
       /\ lastStored[k].has /\ now - lastStored[k].timestamp > searchCacheDuration
       /\ ~searchCache[k].has

\* the query without its leading and trailing whitespace
Trimmed(q) == TrimRight(TrimLeft(q))

\* goroutine t is inside Search, or has returned from it, with a query that
\* is not the empty string
InSearch(t) == th[t].query # <<>>

\* C19: calls whose queries are equal after trimming, with the same limit,
\* use the same cache entry: their keys are equal, the entry that serves a
\* hit was stored by a call with the same trimmed query, and a lookup that
\* finds the entry of such a call younger than searchCacheDuration returns
\* its results without an upstream call.
C19_TrimSharesEntry ==
  /\ \A t, u \in Threads :
       InSearch(t) /\ InSearch(u) /\ Trimmed(th[t].query) = Trimmed(th[u].query)
         /\ th[t].limit = th[u].limit
       => th[t].key = th[u].key
  /\ \A k \in Keys : lastStored[k].has => Trimmed(lastStored[k].query) = k[1]
  /\ \A t \in Threads :
       th[t].looked /\ th[t].seen.has /\ SeenAge(t) < searchCacheDuration =>
         /\ Trimmed(th[t].seen.query) = Trimmed(th[t].query)
         /\ th[t].hit /\ th[t].upstreamCalls = 0 /\ th[t].res = th[t].seen.results

\* Search("x", 1) populated the cache; Search("x ", 1) was served that
\* entry
C19_Witness ==
  \E t, u \in Threads :
    /\ th[t].query = <<"x">> /\ Populating(t) /\ th[t].pc = "ret"
    /\ th[u].query = <<"x", " ">> /\ th[u].hit /\ th[u].pc = "ret"
    /\ th[u].seen.query = <<"x">> /\ th[u].res = th[t].res
    /\ th[u].upstreamCalls = 0

\* the endpoint of call c stopped answering
WentSilent(c) == c.got = "silent" \/ c.cause = "silent"

\* C20: a Fetch or Update whose remote endpoint never responds is abandoned
\* after the per-call timeout and returns failure with nothing written (for
\* Search the client's timeout ends the upstream call with an error, see
\* UpstreamFailures).
C20_SilentRemoteTimesOut ==
  \A c \in Calls :
    WentSilent(c) => Done(c) /\ c.result = Null /\ ~c.committed

(***************************************************************************)
(* Properties of the process start.                                        *)
(***************************************************************************)
Socks5 == [kind |-> "socks5", from |-> "SOCKS_PROXY"]
HttpVia(var) == [kind |-> "http", from |-> var]

\* C21 as stated: SOCKS5 whenever SOCKS_PROXY is set; otherwise an HTTP
\* proxy whenever HTTP_PROXY or HTTPS_PROXY is set, HTTP_PROXY first;
\* otherwise a direct connection.
C21_TransportBySetVariables ==
  boot.resolved > 0 =>
    boot.client =
      IF boot.env.SOCKS_PROXY # "" THEN Socks5
      ELSE IF boot.env.HTTP_PROXY # "" THEN HttpVia("HTTP_PROXY")
      ELSE IF boot.env.HTTPS_PROXY # "" THEN HttpVia("HTTPS_PROXY")
      ELSE Direct

\* C21: the variable that decides is SOCKS_PROXY when it is set, otherwise
\* HTTP_PROXY when it is set, otherwise HTTPS_PROXY; the client uses the
\* proxy of the deciding variable when the library accepts its value, and a
\* direct connection when it rejects it or when no variable is set.  No
\* other variable is consulted once the deciding one is rejected.
C21_TransportByUsableVariable ==
  boot.resolved > 0 =>
    LET e == boot.env
        Use(var, proxied) == IF e[var] = "good" THEN proxied ELSE Direct
    IN /\ e.SOCKS_PROXY # "" => boot.client = Use("SOCKS_PROXY", Socks5)
       /\ e.SOCKS_PROXY = "" /\ e.HTTP_PROXY # "" =>
            boot.client = Use("HTTP_PROXY", HttpVia("HTTP_PROXY"))
       /\ e.SOCKS_PROXY = "" /\ e.HTTP_PROXY = "" /\ e.HTTPS_PROXY # "" =>
            boot.client = Use("HTTPS_PROXY", HttpVia("HTTPS_PROXY"))
       /\ e.SOCKS_PROXY = "" /\ e.HTTP_PROXY = "" /\ e.HTTPS_PROXY = "" =>
            boot.client = Direct

\* HTTP_PROXY holds a URL that does not parse and HTTPS_PROXY a good one:
\* the client connects directly
C21_Witness ==
  /\ boot.resolved = 1
  /\ boot.env = [HTTP_PROXY |-> "bad", HTTPS_PROXY |-> "good", SOCKS_PROXY |-> ""]
  /\ boot.client = Direct

\* the goroutines that have been handed the service
Returned == {g \in Starters : starters[g].pc = "returned"}

\* C30: whatever the number of concurrent callers of GetSteamService, one
\* instance is created, the transport is resolved once and one cleanup
\* loop is started, all before any caller returns; every caller gets that
\* one instance.
C30_OneInstance ==
  /\ boot.created <= 1 /\ boot.resolved <= 1 /\ boot.loops <= 1
  /\ \A g \in Starters :
       starters[g].pc \in {"return", "returned"} =>
         boot.created = 1 /\ boot.resolved = 1 /\ boot.loops = 1
  /\ \A g \in Returned : starters[g].got = boot.instance /\ starters[g].got # NoInstance

\* all three callers have returned, with the same instance
C30_Witness ==
  /\ Returned = Starters
  /\ boot.created = 1 /\ boot.loops = 1
  /\ \A g, h \in Starters : starters[g].got = starters[h].got

\* the ids of the first `limit` items of type "app" of an upstream response
FirstApps(items, limit) ==
  LET IsApp(i) == i.type = "app"
      apps == SelectSeq(items, IsApp)
      n == IF Len(apps) < limit THEN Len(apps) ELSE limit
  IN [k \in 1..n |-> apps[k].id]

\* the upstream response behind the list goroutine t returned
SourceItems(t) == IF th[t].hit THEN th[t].seen.items ELSE th[t].items

\* C29: a list returned by Search(q, limit), from upstream or from the
\* cache, has at most limit elements, all of them ids of "app" items, and
\* is the first limit "app" items, in order, of the upstream response that
\* populated the entry.
C29_ResultIsFirstApps ==
  \A t \in Threads :
    th[t].looked /\ th[t].pc = "ret" /\ ~th[t].err =>
      /\ Len(th[t].res) <= th[t].limit
      /\ \A i \in 1..Len(th[t].res) :
           \E j \in 1..Len(SourceItems(t)) :
             SourceItems(t)[j].id = th[t].res[i] /\ SourceItems(t)[j].type = "app"
      /\ th[t].res = FirstApps(SourceItems(t), th[t].limit)

\* a response of an app, a DLC and another app: a call with limit 1 got the
\* first app from upstream, a call with limit 2 was served both apps from
\* the cache
C29_Witness ==
  \E t, u \in Threads :
    /\ th[t].pc = "ret" /\ ~th[t].hit /\ th[t].looked /\ ~th[t].err
    /\ th[t].limit = 1 /\ Len(th[t].items) = 3 /\ th[t].res = <<1>>
    /\ th[u].pc = "ret" /\ th[u].hit /\ th[u].limit = 2
    /\ Len(th[u].seen.items) = 3 /\ th[u].res = <<1, 3>>

(***************************************************************************)
(* Further properties of the document store client.                        *)
(***************************************************************************)
\* the kinds of failure a call can end with
FailureCauses == {"unconfigured", "fetch", "decode", "transform", "conflict", "error", "neterr"}

\* C23: fetchGames and concurrentUpdateGames never throw: a call that has
\* ended returned a list or null, and it returned null whenever it met a
\* failure (service not configured, network error, error status,
\* undecodable content, exception in the updater, conflict).
C23_NeverThrows ==
  \A c \in Calls :
    Done(c) =>
      /\ c.result = Null \/ c.result = Some(c.result.games)
      /\ c.cause \in FailureCauses \cup {""}
      /\ c.cause \in FailureCauses => c.result = Null

\* an updater that raised, a PUT that failed in transport and a fetchGames
\* that failed in transport: all three returned null
C23_Witness ==
  /\ \E c \in Updates : Done(c) /\ c.cause = "transform" /\ c.tfCalls = 1 /\ c.result = Null
  /\ \E c \in Updates : Done(c) /\ c.cause = "neterr" /\ c.puts = 1 /\ c.result = Null
  /\ \E c \in Fetches : Done(c) /\ c.got = "neterr" /\ c.result = Null

\* the copies of call record d that this step added
Arrived(d) == CopiesIn(d, calls') - CopiesIn(d, calls)

C22_UniqueIds ==
  \A i, j \in 1..Len(RemoteGames) : i # j => RemoteGames[i].id # RemoteGames[j].id

\* an add whose updater found the name in the list it was given
FoundPresent(r) ==
  r.tf.kind = "addGame" /\ r.tfCalls > 0 /\ HasName(r.list, r.tf.game.name)

UniqueNames(L) ==
  \A i, j \in 1..Len(L) : i # j => ToLowerCase(L[i].name) # ToLowerCase(L[j].name)

\* C27: the document never holds two games whose names are equal ignoring
\* case; an add that finds the name in the fetched list writes the list
\* back unchanged and is not reported to the user as having added the game.
C27_DuplicateNotAdded ==
  /\ UniqueNames(RemoteGames)
  /\ \A r \in Calls : FoundPresent(r) => r.newGames = r.list
  /\ \A c \in Clients : \A r \in Awaited(c, {"addGame"}) :
       FoundPresent(r) => ui[c].said # "added"

\* the updaters each handler passes to concurrentUpdateGames
HandlerKinds(handler) ==
  CASE handler = "add"  -> {"addGame"}
    [] handler = "meta" -> {"saveMeta"}
    [] handler = "edit" -> EditKinds
    [] OTHER            -> {}

\* the games state of client c follows the document store in its running
\* (or last) handler: untouched while the call is in flight and after a
\* failed call, otherwise the list a successful call returned
FollowsStore(c) ==
  /\ ui[c].pc \in {"adding", "savingMeta", "editing"} => ui[c].games = ui[c].before
  /\ ui[c].failed => ui[c].games = ui[c].before
  /\ ui[c].games # ui[c].before =>
       \E r \in Awaited(c, HandlerKinds(ui[c].handler)) :
          Succeeded(r) /\ ui[c].games = r.result.games

\* C25: in the add, follow-up metadata save, update, delete and pin
\* handlers the local games state changes only after the awaited
\* concurrentUpdateGames call succeeded, and then to the returned list;
\* after a failed call it equals what it was before the user action.
C25_LocalFollowsStore ==
  \A c \in Clients : ui[c].handler \in {"add", "meta", "edit"} => FollowsStore(c)

\* C26: an updateGames(list) call that succeeds (the migration on load)
\* discards nothing that was committed after the list was read with
\* fetchGames: what it writes is the migration of the document it replaces.
C26_MigrationKeepsChanges ==
  \A r \in Calls :
     r.tf.kind = "setList" /\ Succeeded(r) => r.newGames = Migrate(r.replaced)

\* the records of L whose id is not id, in their order
OtherRecords(L, id) == LET Other(g) == g.id # id IN SelectSeq(L, Other)

\* the update, pin or delete call that writes in this step
EditWrites(r) ==
  r.tf.kind \in EditKinds /\ r.pc = "put" /\ r \notin Calls' /\ remote' # remote

\* C28: an update, pin or delete of game X that is written to the document
\* leaves every record with another id as the document held it, in the
\* same order (records other clients added or changed since this client
\* loaded its list included), and leaves the content unchanged when no
\* record with X's id is in the document.
C28_EditTouchesOnlyX ==
  [][\A r \in Calls : EditWrites(r) =>
        /\ OtherRecords(RemoteGames', r.tf.id) = OtherRecords(RemoteGames, r.tf.id)
        /\ (~HasId(RemoteGames, r.tf.id) => RemoteGames' = RemoteGames)]_vars

\* an edit by a client was written over a document that held a record of
\* another id which that client's list did not have, and the document is
\* still what the edit wrote
C28_Witness ==
  \E r \in Calls :
     /\ r.tf.kind \in EditKinds /\ r.committed
     /\ remote.blob = Encode(r.newGames)
     /\ \E i \in 1..Len(r.replaced) :
          /\ r.replaced[i].id # r.tf.id
          /\ r.replaced[i] \notin Range(ui[r.tf.client].before)
          /\ r.replaced[i] \in Range(RemoteGames)

====
